---- MODULE Spec2Model ----
(***************************************************************************)
(* Model of the collaborative drawing canvas server: the per-room          *)
(* DrawingState (operation log, undo stack, presence), the RoomManager     *)
(* and the socket.io event handlers of the server, together with the       *)
(* client's operation map as rebuilt from the events it receives.          *)
(*                                                                         *)
(* Five specifications are defined over the same variables:                *)
(*   SpecLog      drives one DrawingState through its public methods       *)
(*                (addOperation, undo, redo, removeOperation, clear,       *)
(*                getOperationsSince and the point push of the move        *)
(*                handlers);                                               *)
(*   SpecSnapshot drives one DrawingState and follows a value that         *)
(*                getStateSnapshot returned to its caller;                 *)
(*   Spec         drives the whole server through inbound socket events;   *)
(*   SpecClient   is Spec with every emitted event delivered to the        *)
(*                clients it reaches, which rebuild their operation maps   *)
(*                while they only observe;                                 *)
(*   SpecDrawer   is Spec driven by the client application, with the       *)
(*                operation maps of the drawing clients followed too.      *)
(***************************************************************************)
EXTENDS Integers, Sequences, FiniteSets, TLC

(* ------------------------------ bounds -------------------------------- *)

\* Largest number of operations held at one time (operations + undoStack).
MaxOps == 2

\* Largest number of points pushed by move events onto the operations held.
MaxMoves == 1

\* Number of ids uuidv4() hands out in one run.
MaxUuid == 1

\* Largest number of presence entries that carry a cursor position.
MaxCursors == 1

(* ------------------------------ inputs -------------------------------- *)

\* socket.id of each connection; it is also the user id (currentUserId).
Sessions == {"s1", "s2"}

\* 'default' is the handlers' default room key.
DefaultRoom == "default"

RoomKeys == {DefaultRoom, "x"}

\* The room keys the join-room events of a socket name: s1 moves between the
\* rooms, s2 stays with the default room.
JoinKeys(s) == IF s = "s1" THEN RoomKeys ELSE {DefaultRoom}

\* The tool of each client: s1 draws with the brush, s2 with the eraser.
StartEvents(s) == IF s = "s1" THEN {"draw-start"} ELSE {"erase-start"}

\* operationId values a client may put into draw-start / erase-start.
ClientIds == {"a"}

\* operationId values of the drafts given to the log under test.
LogIds == {"a", "b"}

\* A missing (or empty, hence falsy) operationId / roomId.
NoId == ""

Points == {[x |-> 0, y |-> 0], [x |-> 1, y |-> 1]}

OpTypes == {"draw", "erase"}

\* JavaScript null / undefined.
Null == [null |-> TRUE]

(* --------------------------- sequence helpers -------------------------- *)

\* findIndex(e => e.id === id): the first index whose element has that id, 0 if none.
FindIndexById(s, id) ==
    IF \E i \in 1..Len(s) : s[i].id = id
    THEN CHOOSE i \in 1..Len(s) : s[i].id = id /\ \A j \in 1..(i - 1) : s[j].id # id
    ELSE 0

\* Array.prototype.splice(index, 1): the array without its element at i.
RemoveAt(s, i) == [j \in 1..(Len(s) - 1) |-> IF j < i THEN s[j] ELSE s[j + 1]]

\* Array.prototype.pop: the array without its last element.
Front(s) == SubSeq(s, 1, Len(s) - 1)

Last(s) == s[Len(s)]

(* ------------------------------ uuid ----------------------------------- *)

\* uuidv4(): the n-th identifier generated by the process; never a client id.
uuidv4(n) == "uuid-" \o ToString(n)

(* --------------------------- DrawingState ------------------------------ *)

\* new DrawingState(): the field initialisers.
NewDrawingState ==
    [operations |-> <<>>, users |-> <<>>, sequenceCounter |-> 0,
     undoStack |-> <<>>, redoStack |-> <<>>]

\* addOperation putting the new operation in front (unshift) instead of push.
addOperation_unshift(ds, draft, n) ==
    LET fullOperation ==
            [id |-> IF draft.id # NoId THEN draft.id ELSE uuidv4(n),
             userId |-> draft.userId,
             type |-> draft.type,
             points |-> draft.points,
             sequenceNumber |-> ds.sequenceCounter]
    IN [state |-> [ds EXCEPT !.operations = <<fullOperation>> \o @,
                             !.sequenceCounter = @ + 1,
                             !.redoStack = <<>>],
        ret |-> fullOperation]

\* addOperation reading sequenceCounter without the ++.
addOperation_noIncrement(ds, draft, n) ==
    LET fullOperation ==
            [id |-> IF draft.id # NoId THEN draft.id ELSE uuidv4(n),
             userId |-> draft.userId,
             type |-> draft.type,
             points |-> draft.points,
             sequenceNumber |-> ds.sequenceCounter]
    IN [state |-> [ds EXCEPT !.operations = Append(@, fullOperation),
                             !.redoStack = <<>>],
        ret |-> fullOperation]

\* addOperation: id from the draft or uuidv4(), sequenceNumber = sequenceCounter++,
\* push on operations, redoStack = [].
addOperation(ds, draft, n) ==
    LET fullOperation ==
            [id |-> IF draft.id # NoId THEN draft.id ELSE uuidv4(n),
             userId |-> draft.userId,
             type |-> draft.type,
             points |-> draft.points,
             sequenceNumber |-> ds.sequenceCounter]
    IN [state |-> [ds EXCEPT !.operations = Append(@, fullOperation),
                             !.sequenceCounter = @ + 1,
                             !.redoStack = <<>>],
        ret |-> fullOperation]

\* getOperations: a copy of the operations array.
getOperations(ds) == ds.operations

\* getOperationsSince with >= in the filter.
getOperationsSince_inclusive(ds, sequenceNumber) ==
    SelectSeq(ds.operations, LAMBDA op : op.sequenceNumber >= sequenceNumber)

\* getOperationsSince: the operations with a larger sequence number.
getOperationsSince(ds, sequenceNumber) ==
    SelectSeq(ds.operations, LAMBDA op : op.sequenceNumber > sequenceNumber)

\* undo without the push on undoStack.
undo_drop(ds) ==
    IF Len(ds.operations) = 0
    THEN [state |-> ds, ret |-> Null]
    ELSE LET lastOp == Last(ds.operations)
         IN [state |-> [ds EXCEPT !.operations = Front(@)],
             ret |-> lastOp]

\* undo taking the oldest operation (shift) instead of the newest (pop).
undo_shift(ds) ==
    IF Len(ds.operations) = 0
    THEN [state |-> ds, ret |-> Null]
    ELSE LET firstOp == Head(ds.operations)
         IN [state |-> [ds EXCEPT !.operations = Tail(@),
                                  !.undoStack = Append(@, firstOp)],
             ret |-> firstOp]

\* undo: pop the last operation and push it on undoStack.
undo(ds) ==
    IF Len(ds.operations) = 0
    THEN [state |-> ds, ret |-> Null]
    ELSE LET lastOp == Last(ds.operations)
         IN [state |-> [ds EXCEPT !.operations = Front(@),
                                  !.undoStack = Append(@, lastOp)],
             ret |-> lastOp]

\* redo taking the oldest entry of undoStack (shift) instead of the newest (pop).
redo_shift(ds) ==
    IF Len(ds.undoStack) = 0
    THEN [state |-> ds, ret |-> Null]
    ELSE LET op == Head(ds.undoStack)
         IN [state |-> [ds EXCEPT !.undoStack = Tail(@),
                                  !.operations = Append(@, op)],
             ret |-> op]

\* redo handing the operation a new sequence number, as addOperation would.
redo_renumber(ds) ==
    IF Len(ds.undoStack) = 0
    THEN [state |-> ds, ret |-> Null]
    ELSE LET op == [Last(ds.undoStack) EXCEPT !.sequenceNumber = ds.sequenceCounter]
         IN [state |-> [ds EXCEPT !.undoStack = Front(@),
                                  !.operations = Append(@, op),
                                  !.sequenceCounter = @ + 1],
             ret |-> op]

\* redo: pop undoStack and push the operation on operations.
redo(ds) ==
    IF Len(ds.undoStack) = 0
    THEN [state |-> ds, ret |-> Null]
    ELSE LET op == Last(ds.undoStack)
         IN [state |-> [ds EXCEPT !.undoStack = Front(@),
                                  !.operations = Append(@, op)],
             ret |-> op]

\* removeOperation without the undoStack.push: the operation is dropped.
removeOperation_noPush(ds, operationId) ==
    LET index == FindIndexById(ds.operations, operationId)
    IN IF index # 0
       THEN [state |-> [ds EXCEPT !.operations = RemoveAt(@, index)],
             ret |-> TRUE]
       ELSE [state |-> ds, ret |-> FALSE]

\* removeOperation: splice the first operation with that id out, push it on undoStack.
removeOperation(ds, operationId) ==
    LET index == FindIndexById(ds.operations, operationId)
    IN IF index # 0
       THEN [state |-> [ds EXCEPT !.operations = RemoveAt(@, index),
                                  !.undoStack = Append(@, ds.operations[index])],
             ret |-> TRUE]
       ELSE [state |-> ds, ret |-> FALSE]

\* clear emptying the operations only.
clear_operationsOnly(ds) ==
    [ds EXCEPT !.operations = <<>>]

\* clear: everything empty, counter back to 0.
clear(ds) ==
    [ds EXCEPT !.operations = <<>>, !.undoStack = <<>>, !.redoStack = <<>>,
               !.sequenceCounter = 0]

\* The users Map, kept as the sequence of its values in insertion order.
addUser(ds, userId, name, color) ==
    LET user == [id |-> userId, name |-> name, color |-> color, isActive |-> TRUE,
                 cursorPosition |-> Null]
        i == FindIndexById(ds.users, userId)
    IN [state |-> [ds EXCEPT !.users = IF i = 0 THEN Append(@, user)
                                       ELSE [@ EXCEPT ![i] = user]],
        ret |-> user]

removeUser(ds, userId) ==
    LET i == FindIndexById(ds.users, userId)
    IN IF i = 0 THEN ds ELSE [ds EXCEPT !.users = RemoveAt(@, i)]

updateUserCursor(ds, userId, position) ==
    LET i == FindIndexById(ds.users, userId)
    IN IF i = 0 THEN ds
       ELSE [ds EXCEPT !.users[i].cursorPosition = position,
                       !.users[i].isActive = TRUE]

setUserInactive(ds, userId) ==
    LET i == FindIndexById(ds.users, userId)
    IN IF i = 0 THEN ds ELSE [ds EXCEPT !.users[i].isActive = FALSE]

getUsers(ds) == ds.users

\* getUser(id)?.color: the user's colour, "undefined" when the room has no such user.
getUserColor(ds, userId) ==
    LET i == FindIndexById(ds.users, userId)
    IN IF i = 0 THEN "undefined" ELSE ds.users[i].color

\* getStateSnapshot: copies of the operations and of the users, and the counter.
getStateSnapshot(ds) ==
    [operations |-> ds.operations, users |-> getUsers(ds),
     sequenceNumber |-> ds.sequenceCounter]

\* The move handlers' lookup: operations.find(op => op.id === data.operationId),
\* as an index (0 when find returns undefined).
FindOperation(ds, operationId) ==
    FindIndexById(getOperations(ds), operationId)

\* The guard without the comparison of userId: `if (operation)`.
OwnsOperation_anyAuthor(ds, operationId, userId) ==
    FindOperation(ds, operationId) # 0

\* The move handlers' guard: operation && operation.userId === currentUserId.
OwnsOperation(ds, operationId, userId) ==
    LET i == FindOperation(ds, operationId)
    IN i # 0 /\ ds.operations[i].userId = userId

\* operation.points.unshift(data.point): the point goes in front.
PushPoint_unshift(ds, operationId, point) ==
    LET i == FindOperation(ds, operationId)
    IN [ds EXCEPT !.operations[i].points = <<point>> \o @]

\* operation.points.push(data.point) on the operation object found.
PushPoint(ds, operationId, point) ==
    LET i == FindOperation(ds, operationId)
    IN [ds EXCEPT !.operations[i].points = Append(@, point)]

(* ------------------------------ state ---------------------------------- *)

VARIABLES
    log,            \* SpecLog: the DrawingState under test
    lastCall,       \* SpecLog: the last method called, the state before it, its result
    given,          \* SpecLog: the sequence numbers addOperation has handed out so far
    givenSinceClear,\* SpecLog: those handed out since the last clear()
    snap,           \* SpecSnapshot: the last value getStateSnapshot() returned, as its caller holds it
    uuidNext,       \* number of ids uuidv4() has generated so far
    rooms,          \* RoomManager.rooms: room key -> DrawingState
    userToRoom,     \* RoomManager.userToRoom: user id -> room key
    status,         \* per socket: "none" (not yet connected), "connected", "closed"
    currentRoomId,  \* per socket: the connection handler's currentRoomId
    userColor,      \* per socket: the colour drawn at connection
    sockRooms,      \* per socket: the socket.io rooms it has joined (socket.join)
    clientOps,      \* per client: CanvasManager.operations, values in insertion order
    currentOperationId, \* per client: WebSocketClient.currentOperationId (NoId for null)
    observing       \* per client: it has sent nothing but join-room so far

logVars == <<log, lastCall, given, givenSinceClear, snap>>

serverVars == <<rooms, userToRoom, status, currentRoomId, userColor, sockRooms>>

clientVars == <<clientOps, currentOperationId, observing>>

vars == <<log, lastCall, given, givenSinceClear, snap, uuidNext, rooms, userToRoom, status, currentRoomId,
          userColor, sockRooms, clientOps, currentOperationId, observing>>

\* The arguments getOperationsSince is called with: below, among and above the
\* sequence numbers in use.
SinceArgs == (0 - 1)..MaxOps

\* The ids uuidv4() can have generated.
Uuids == {uuidv4(n) : n \in 0..(MaxUuid - 1)}

\* A draft as the start handlers build it.
Drafts(users, types) ==
    [id : LogIds \cup {NoId}, userId : users, type : types,
     points : {<<p>> : p \in Points}]

RECURSIVE SumMoves(_)
SumMoves(ops) ==
    IF ops = <<>> THEN 0 ELSE (Len(Head(ops).points) - 1) + SumMoves(Tail(ops))

\* Operations held by a DrawingState, and the points pushed onto them so far.
LogSize(ds) == Len(ds.operations) + Len(ds.undoStack)

LogMoves(ds) == SumMoves(ds.operations) + SumMoves(ds.undoStack)

\* The record of one method call on the log under test.
Call(name, before, ret) == [name |-> name, before |-> before, ret |-> ret]

\* No getStateSnapshot() call yet.
NoSnapshot ==
    [held |-> Null, returned |-> Null, sinceClear |-> FALSE, added |-> {}]

\* The caller's record of a getStateSnapshot() call: the value returned (held is
\* what the caller reads in it now, returned what it read at the return), whether
\* clear() has not run since, and the sequence numbers addOperation has handed
\* out since.
Snapshot(ds) ==
    [held |-> getStateSnapshot(ds), returned |-> getStateSnapshot(ds),
     sinceClear |-> TRUE, added |-> {}]

\* [...this.operations] copies the array, not the operation objects: a
\* points.push on an operation of the log is a push on the same object in a
\* snapshot taken since the last clear() (clear() gives the log new arrays, and
\* the operations added after it are new objects). Within one such period the
\* sequence number names the object.
SharedPush(sn, op, point) ==
    IF sn.held = Null \/ ~sn.sinceClear THEN sn
    ELSE [sn EXCEPT !.held.operations =
            [i \in DOMAIN @ |->
                IF @[i].sequenceNumber = op.sequenceNumber
                THEN [@[i] EXCEPT !.points = Append(@, point)]
                ELSE @[i]]]

(* --------------------------- RoomManager -------------------------------- *)

\* getRoom without the `if (!this.rooms.has(roomId))`: a new DrawingState is
\* set under roomId on every call.
getRoom_alwaysNew(rs, roomId) ==
    [k \in DOMAIN rs \cup {roomId} |->
        IF k = roomId THEN NewDrawingState ELSE rs[k]]

\* getRoom: the rooms Map with a new DrawingState under roomId unless it has one.
getRoom(rs, roomId) ==
    IF roomId \in DOMAIN rs THEN rs ELSE rs @@ (roomId :> NewDrawingState)

\* joinRoom: getRoom, userToRoom.set, room.addUser.
joinRoom(rs, utr, userId, roomId, userName, color) ==
    LET rs1 == getRoom(rs, roomId)
        r == addUser(rs1[roomId], userId, userName, color)
    IN [rooms |-> [rs1 EXCEPT ![roomId] = r.state],
        userToRoom |-> [u \in DOMAIN utr \cup {userId} |->
                            IF u = userId THEN roomId ELSE utr[u]],
        ret |-> r.ret]

\* leaveRoom with the clean-up of empty rooms that the code has commented out:
\* `if (room.getUsers().length === 0) this.rooms.delete(roomId)`.
leaveRoom_evictEmpty(rs, utr, userId) ==
    IF userId \in DOMAIN utr /\ utr[userId] # NoId
    THEN LET rs1 == getRoom(rs, utr[userId])
             room == removeUser(rs1[utr[userId]], userId)
             keep == IF Len(getUsers(room)) = 0
                     THEN DOMAIN rs1 \ {utr[userId]} ELSE DOMAIN rs1
         IN [rooms |-> [k \in keep |-> IF k = utr[userId] THEN room ELSE rs1[k]],
             userToRoom |-> [u \in DOMAIN utr \ {userId} |-> utr[u]]]
    ELSE [rooms |-> rs, userToRoom |-> utr]

\* leaveRoom falling back on the default room for a user userToRoom does not
\* know: `this.userToRoom.get(userId) || 'default'`.
leaveRoom_defaultRoom(rs, utr, userId) ==
    LET roomId == IF userId \in DOMAIN utr /\ utr[userId] # NoId
                  THEN utr[userId] ELSE DefaultRoom
        rs1 == getRoom(rs, roomId)
    IN [rooms |-> [rs1 EXCEPT ![roomId] = removeUser(@, userId)],
        userToRoom |-> [u \in DOMAIN utr \ {userId} |-> utr[u]]]

\* leaveRoom: if userToRoom has a (truthy) room for the user, remove the user
\* from that room and from userToRoom.
leaveRoom(rs, utr, userId) ==
    IF userId \in DOMAIN utr /\ utr[userId] # NoId
    THEN LET rs1 == getRoom(rs, utr[userId])
         IN [rooms |-> [rs1 EXCEPT ![utr[userId]] = removeUser(@, userId)],
             userToRoom |-> [u \in DOMAIN utr \ {userId} |-> utr[u]]]
    ELSE [rooms |-> rs, userToRoom |-> utr]

getUserRoom(utr, userId) == IF userId \in DOMAIN utr THEN utr[userId] ELSE NoId

getAllRooms(rs) == DOMAIN rs

(* --------------------------- server state ------------------------------- *)

\* The colour a connection draws from userColors (the handlers only copy it).
userColors == {"#FF6B6B"}

\* data.userName of a join-room event: absent, or a name.
UserNames == {NoId}

\* The points the server's start, move and cursor events carry.
StartPoints == {[x |-> 0, y |-> 0]}

MovePoints == {[x |-> 1, y |-> 1]}

CursorPoints == {[x |-> 0, y |-> 0]}

\* One emit call: the sockets it reaches, the event name and the payload.
Emit(to, event, data) == [to |-> to, event |-> event, data |-> data]

\* socket.to(room) behaving as io.to(room): the sender is not left out.
SocketTo_withSender(s, room) ==
    {t \in Sessions : status[t] = "connected" /\ room \in sockRooms[t]}

\* socket.to(room): the connected sockets that joined the room, without the sender.
SocketTo(s, room) ==
    {t \in Sessions \ {s} : status[t] = "connected" /\ room \in sockRooms[t]}

\* io.to(room): the connected sockets that joined the room.
IoTo(room) == {t \in Sessions : status[t] = "connected" /\ room \in sockRooms[t]}

\* What a handler run for socket s leaves behind: the RoomManager's maps, the
\* socket's own variables, the uuid count, and its emit calls in order.
Effect(s, rs, utr, out) ==
    [rooms |-> rs, userToRoom |-> utr, currentRoomId |-> currentRoomId[s],
     sockRooms |-> sockRooms[s], status |-> "connected", uuidNext |-> uuidNext,
     out |-> out]

RECURSIVE RoomsSize(_, _)
RoomsSize(rs, keys) ==
    IF keys = {} THEN 0
    ELSE LET k == CHOOSE k \in keys : TRUE
         IN LogSize(rs[k]) + RoomsSize(rs, keys \ {k})

RECURSIVE RoomsMoves(_, _)
RoomsMoves(rs, keys) ==
    IF keys = {} THEN 0
    ELSE LET k == CHOOSE k \in keys : TRUE
         IN LogMoves(rs[k]) + RoomsMoves(rs, keys \ {k})

\* Operations held by all rooms, and points pushed onto them.
TotalOps == RoomsSize(rooms, DOMAIN rooms)

TotalMoves == RoomsMoves(rooms, DOMAIN rooms)

\* Presence entries, over all rooms, that carry a cursor position.
TotalCursors ==
    Cardinality({<<k, i>> \in (DOMAIN rooms) \X (1..Cardinality(Sessions)) :
                    /\ i <= Len(rooms[k].users)
                    /\ rooms[k].users[i].cursorPosition # Null})

ServerInit ==
    /\ rooms = <<>>
    /\ userToRoom = <<>>
    /\ status = [s \in Sessions |-> "none"]
    /\ currentRoomId = [s \in Sessions |-> NoId]
    /\ userColor = [s \in Sessions |-> "undefined"]
    /\ sockRooms = [s \in Sessions |-> {}]

(* --------------------------- event handlers ----------------------------- *)

\* socket.on('join-room')
OnJoinRoom(s, roomId, userName) ==
    LET rid == IF roomId # NoId THEN roomId ELSE DefaultRoom
        name == IF userName # NoId THEN userName ELSE "User " \o s
        j == joinRoom(getRoom(rooms, rid), userToRoom, s, rid, name, userColor[s])
        room == j.rooms[rid]
        others == SocketTo(s, rid)
    IN [Effect(s, j.rooms, j.userToRoom,
               << Emit({s}, "state-sync", getStateSnapshot(room)),
                  Emit(others, "user-joined", j.ret),
                  Emit({s}, "users-update", getUsers(room)),
                  Emit(others, "users-update", getUsers(room)) >>)
        EXCEPT !.currentRoomId = rid, !.sockRooms = @ \cup {rid}]

\* socket.on('request-users')
OnRequestUsers(s) ==
    LET rs1 == getRoom(rooms, currentRoomId[s])
    IN Effect(s, rs1, userToRoom,
              << Emit({s}, "users-list", getUsers(rs1[currentRoomId[s]])) >>)

\* The body shared by socket.on('draw-start') and socket.on('erase-start').
OnStart(s, type, event, point, operationId) ==
    LET cur == currentRoomId[s]
        rs1 == getRoom(rooms, cur)
        r == addOperation(rs1[cur],
                 [id |-> operationId, userId |-> s, type |-> type,
                  points |-> <<point>>], uuidNext)
        data == [id |-> r.ret.id, userId |-> r.ret.userId, type |-> r.ret.type,
                 points |-> r.ret.points, sequenceNumber |-> r.ret.sequenceNumber,
                 userColor |-> getUserColor(r.state, s)]
    IN [Effect(s, [rs1 EXCEPT ![cur] = r.state], userToRoom,
               << Emit(SocketTo(s, cur), event, data) >>)
        EXCEPT !.uuidNext = IF operationId = NoId THEN @ + 1 ELSE @]

\* The move handlers with the emit outside the guard: the point is pushed only
\* on an operation of the sender, the event goes out in every case.
OnMove_emitAlways(s, event, point, operationId) ==
    LET cur == currentRoomId[s]
        rs1 == getRoom(rooms, cur)
    IN Effect(s, IF OwnsOperation(rs1[cur], operationId, s)
                 THEN [rs1 EXCEPT ![cur] = PushPoint(@, operationId, point)]
                 ELSE rs1,
              userToRoom,
              << Emit(SocketTo(s, cur), event,
                      [operationId |-> operationId, point |-> point]) >>)

\* socket.on('draw-move'); the name of the event emitted is a parameter.
OnMove(s, event, point, operationId) ==
    LET cur == currentRoomId[s]
        rs1 == getRoom(rooms, cur)
    IN IF OwnsOperation(rs1[cur], operationId, s)
       THEN Effect(s, [rs1 EXCEPT ![cur] = PushPoint(@, operationId, point)], userToRoom,
                   << Emit(SocketTo(s, cur), event,
                           [operationId |-> operationId, point |-> point]) >>)
       ELSE Effect(s, rs1, userToRoom, <<>>)

\* socket.on('draw-end'); the name of the event emitted is a parameter.
OnEnd(s, event, operationId) ==
    LET cur == currentRoomId[s]
        rs1 == getRoom(rooms, cur)
    IN IF OwnsOperation(rs1[cur], operationId, s)
       THEN Effect(s, rs1, userToRoom,
                   << Emit(SocketTo(s, cur), event, [operationId |-> operationId]) >>)
       ELSE Effect(s, rs1, userToRoom, <<>>)

\* The erase-move handler with `if (operation)` for a guard: the userId of the
\* operation found is not compared with the sender.
OnEraseMove_unchecked(s, point, operationId) ==
    LET cur == currentRoomId[s]
        rs1 == getRoom(rooms, cur)
        i == FindIndexById(getOperations(rs1[cur]), operationId)
    IN IF i # 0
       THEN Effect(s, [rs1 EXCEPT ![cur].operations[i].points = Append(@, point)],
                   userToRoom,
                   << Emit(SocketTo(s, cur), "erase-move",
                           [operationId |-> operationId, point |-> point]) >>)
       ELSE Effect(s, rs1, userToRoom, <<>>)

\* socket.on('erase-move'): find the operation by id among getOperations(),
\* and if there is one and it is the sender's, push the point and emit.
OnEraseMove(s, point, operationId) ==
    LET cur == currentRoomId[s]
        rs1 == getRoom(rooms, cur)
        i == FindIndexById(getOperations(rs1[cur]), operationId)
    IN IF i # 0 /\ rs1[cur].operations[i].userId = s
       THEN Effect(s, [rs1 EXCEPT ![cur].operations[i].points = Append(@, point)],
                   userToRoom,
                   << Emit(SocketTo(s, cur), "erase-move",
                           [operationId |-> operationId, point |-> point]) >>)
       ELSE Effect(s, rs1, userToRoom, <<>>)

\* socket.on('erase-end'): the same lookup and guard, then the emit.
OnEraseEnd(s, operationId) ==
    LET cur == currentRoomId[s]
        rs1 == getRoom(rooms, cur)
        i == FindIndexById(getOperations(rs1[cur]), operationId)
    IN IF i # 0 /\ rs1[cur].operations[i].userId = s
       THEN Effect(s, rs1, userToRoom,
                   << Emit(SocketTo(s, cur), "erase-end",
                           [operationId |-> operationId]) >>)
       ELSE Effect(s, rs1, userToRoom, <<>>)

\* socket.on('cursor-move')
OnCursorMove(s, point) ==
    LET cur == currentRoomId[s]
        rs1 == getRoom(rooms, cur)
        room == updateUserCursor(rs1[cur], s, point)
    IN Effect(s, [rs1 EXCEPT ![cur] = room], userToRoom,
              << Emit(SocketTo(s, cur), "cursor-move",
                      [userId |-> s, point |-> point,
                       userColor |-> getUserColor(room, s)]) >>)

\* The undo handler with the emit outside the `if (undoneOp)`.
OnUndo_emitAlways(s) ==
    LET cur == currentRoomId[s]
        rs1 == getRoom(rooms, cur)
        r == undo(rs1[cur])
    IN Effect(s, [rs1 EXCEPT ![cur] = r.state], userToRoom,
              << Emit(IoTo(cur), "undo",
                      IF r.ret # Null
                      THEN [operationId |-> r.ret.id, userId |-> r.ret.userId]
                      ELSE [operationId |-> "undefined", userId |-> "undefined"]) >>)

\* socket.on('undo')
OnUndo(s) ==
    LET cur == currentRoomId[s]
        rs1 == getRoom(rooms, cur)
        r == undo(rs1[cur])
    IN Effect(s, [rs1 EXCEPT ![cur] = r.state], userToRoom,
              IF r.ret # Null
              THEN << Emit(IoTo(cur), "undo",
                           [operationId |-> r.ret.id, userId |-> r.ret.userId]) >>
              ELSE <<>>)

\* socket.on('redo')
OnRedo(s) ==
    LET cur == currentRoomId[s]
        rs1 == getRoom(rooms, cur)
        r == redo(rs1[cur])
    IN Effect(s, [rs1 EXCEPT ![cur] = r.state], userToRoom,
              IF r.ret # Null
              THEN << Emit(IoTo(cur), "redo", [operation |-> r.ret]) >>
              ELSE <<>>)

\* clear-canvas clearing the DrawingState of every room instead of the sender's.
OnClearCanvas_everyRoom(s) ==
    LET cur == currentRoomId[s]
        rs1 == getRoom(rooms, cur)
    IN Effect(s, [k \in DOMAIN rs1 |-> clear(rs1[k])], userToRoom,
              << Emit(IoTo(cur), "clear-canvas", Null) >>)

\* socket.on('clear-canvas')
OnClearCanvas(s) ==
    LET cur == currentRoomId[s]
        rs1 == getRoom(rooms, cur)
    IN Effect(s, [rs1 EXCEPT ![cur] = clear(@)], userToRoom,
              << Emit(IoTo(cur), "clear-canvas", Null) >>)

\* The disconnect handler rolling back the operations of the leaving user.
OnDisconnect_rollback(s) ==
    LET cur == currentRoomId[s]
        rs1 == getRoom(rooms, cur)
        rs2 == [rs1 EXCEPT ![cur] =
                   [setUserInactive(@, s) EXCEPT !.operations =
                       SelectSeq(@, LAMBDA op : op.userId # s)]]
        l == leaveRoom(rs2, userToRoom, s)
    IN [Effect(s, l.rooms, l.userToRoom,
               << Emit(SocketTo(s, cur), "user-left", [userId |-> s]) >>)
        EXCEPT !.status = "closed", !.sockRooms = {}]

\* socket.on('disconnect'): the socket has left its socket.io rooms by then.
OnDisconnect(s) ==
    LET cur == currentRoomId[s]
        rs1 == getRoom(rooms, cur)
        rs2 == [rs1 EXCEPT ![cur] = setUserInactive(@, s)]
        l == leaveRoom(rs2, userToRoom, s)
    IN [Effect(s, l.rooms, l.userToRoom,
               << Emit(SocketTo(s, cur), "user-left", [userId |-> s]) >>)
        EXCEPT !.status = "closed", !.sockRooms = {}]

(* ------------------------------ client ---------------------------------- *)

\* Map.set(op.id, op) on the client's operations Map.
MapSet(ops, op) ==
    LET i == FindIndexById(ops, op.id)
    IN IF i = 0 THEN Append(ops, op) ELSE [ops EXCEPT ![i] = op]

\* Map.delete(id).
MapDelete(ops, id) ==
    LET i == FindIndexById(ops, id)
    IN IF i = 0 THEN ops ELSE RemoveAt(ops, i)

\* state-sync: canvasManager.clear(), then drawRemoteOperation for each operation.
RECURSIVE SetAll(_, _)
SetAll(ops, list) ==
    IF list = <<>> THEN ops ELSE SetAll(MapSet(ops, Head(list)), Tail(list))

\* CanvasManager.addPointToOperation
addPointToOperation(ops, operationId, point) ==
    LET i == FindIndexById(ops, operationId)
    IN IF i = 0 THEN ops ELSE [ops EXCEPT ![i].points = Append(@, point)]

\* The listeners of WebSocketClient.setupEventListeners, for a client whose
\* currentOperationId is cid.
Receive(ops, msg, cid) ==
    CASE msg.event = "state-sync" -> SetAll(<<>>, msg.data.operations)
      [] msg.event \in {"draw-start", "erase-start"} ->
            IF msg.data.id # cid THEN MapSet(ops, msg.data) ELSE ops
      [] msg.event \in {"draw-move", "erase-move"} ->
            addPointToOperation(ops, msg.data.operationId, msg.data.point)
      [] msg.event = "undo" -> MapDelete(ops, msg.data.operationId)
      [] msg.event = "redo" -> MapSet(ops, msg.data.operation)
      [] msg.event = "clear-canvas" -> <<>>
      [] OTHER -> ops

\* The messages of a handler's emit calls that reach socket t, applied in order.
RECURSIVE Deliver(_, _, _, _)
Deliver(ops, t, out, cid) ==
    IF out = <<>> THEN ops
    ELSE Deliver(IF t \in Head(out).to THEN Receive(ops, Head(out), cid) ELSE ops,
                 t, Tail(out), cid)

\* What a client has sent: the event and the operationId it carries (NoId for none).
Sent(event, operationId) == [event |-> event, operationId |-> operationId]

\* The sender's currentOperationId after sending: the start events come after
\* setCurrentOperationId(operationId), sendDrawEnd and sendEraseEnd set it to null.
SetCurrentOperationId(cid, sent) ==
    CASE sent.event \in {"draw-start", "erase-start"} -> sent.operationId
      [] sent.event \in {"draw-end", "erase-end"} -> NoId
      [] OTHER -> cid

ClientInit ==
    /\ clientOps = [s \in Sessions |-> <<>>]
    /\ currentOperationId = [s \in Sessions |-> NoId]
    /\ observing = [s \in Sessions |-> TRUE]

\* Which clients a specification follows: none, those that only observe, or
\* those that draw as well.
NoClients == "none"

Observers == "observers"

Drawers == "drawers"

\* The clients after a handler's messages: every observing client applies what
\* reaches it; the sender of anything but join-room is an observer no longer,
\* and its operations map is followed no further.
ClientStep(s, eff, sent) ==
    /\ observing' = [observing EXCEPT ![s] = @ /\ sent.event = "join-room"]
    /\ clientOps' = [t \in Sessions |->
                        IF observing'[t]
                        THEN Deliver(clientOps[t], t, eff.out, currentOperationId[t])
                        ELSE <<>>]
    /\ UNCHANGED currentOperationId

\* What the client application sends (main.ts): a start event carries the id
\* it has just generated, a move or end event the id of the operation it is
\* drawing.
CanSend(s, sent) ==
    CASE sent.event \in {"draw-start", "erase-start"} -> sent.operationId # NoId
      [] sent.event \in {"draw-move", "erase-move", "draw-end", "erase-end"} ->
            sent.operationId # NoId /\ sent.operationId = currentOperationId[s]
      [] OTHER -> TRUE

\* The clients after a handler's messages, drawing clients included: the sender
\* has set its currentOperationId, and every client applies what reaches it.
\* The sender's own stroke is in CanvasManager.currentOperation only:
\* startDrawing, continueDrawing and endDrawing never touch the operations Map.
DrawerStep(s, eff, sent) ==
    /\ currentOperationId' =
          [currentOperationId EXCEPT ![s] = SetCurrentOperationId(@, sent)]
    /\ clientOps' = [t \in Sessions |->
                        Deliver(clientOps[t], t, eff.out, currentOperationId'[t])]
    /\ UNCHANGED observing

(* ------------------------------ actions --------------------------------- *)

Init ==
    /\ log = NewDrawingState
    /\ lastCall = Call("new", NewDrawingState, Null)
    /\ given = {}
    /\ givenSinceClear = {}
    /\ snap = NoSnapshot
    /\ uuidNext = 0
    /\ ServerInit
    /\ ClientInit

\* The handler's effect on the server, and on the clients when they are modelled.
Handle(s, eff, clients, sent) ==
    /\ status[s] = "connected"
    /\ clients = Drawers => CanSend(s, sent)
    /\ rooms' = eff.rooms
    /\ userToRoom' = eff.userToRoom
    /\ currentRoomId' = [currentRoomId EXCEPT ![s] = eff.currentRoomId]
    /\ sockRooms' = [sockRooms EXCEPT ![s] = eff.sockRooms]
    /\ status' = [status EXCEPT ![s] = eff.status]
    /\ uuidNext' = eff.uuidNext
    /\ UNCHANGED <<userColor, logVars>>
    /\ CASE clients = Observers -> ClientStep(s, eff, sent)
         [] clients = Drawers -> DrawerStep(s, eff, sent)
         [] OTHER -> UNCHANGED clientVars

\* io.on('connection'): the handler's variables of the new socket.
Connect(s) ==
    /\ status[s] = "none"
    /\ status' = [status EXCEPT ![s] = "connected"]
    /\ currentRoomId' = [currentRoomId EXCEPT ![s] = DefaultRoom]
    /\ \E c \in userColors : userColor' = [userColor EXCEPT ![s] = c]
    /\ UNCHANGED <<rooms, userToRoom, sockRooms, uuidNext, logVars, clientVars>>

JoinRoom(s, clients) ==
    \E roomId \in JoinKeys(s) \cup {NoId}, userName \in UserNames :
        /\ clients = Drawers => roomId # NoId
        /\ Handle(s, OnJoinRoom(s, roomId, userName), clients, Sent("join-room", NoId))

RequestUsers(s, clients) ==
    Handle(s, OnRequestUsers(s), clients, Sent("request-users", NoId))

DrawStart(s, clients) ==
    \E point \in StartPoints, operationId \in ClientIds \cup {NoId} :
        /\ "draw-start" \in StartEvents(s)
        /\ TotalOps < MaxOps
        /\ operationId = NoId => uuidNext < MaxUuid
        /\ Handle(s, OnStart(s, "draw", "draw-start", point, operationId), clients,
                  Sent("draw-start", operationId))

DrawMove(s, clients) ==
    \E point \in MovePoints, operationId \in ClientIds \cup Uuids :
        /\ TotalMoves < MaxMoves
        /\ Handle(s, OnMove(s, "draw-move", point, operationId), clients,
                  Sent("draw-move", operationId))

DrawEnd(s, clients) ==
    \E operationId \in ClientIds \cup Uuids :
        Handle(s, OnEnd(s, "draw-end", operationId), clients, Sent("draw-end", operationId))

EraseStart(s, clients) ==
    \E point \in StartPoints, operationId \in ClientIds \cup {NoId} :
        /\ "erase-start" \in StartEvents(s)
        /\ TotalOps < MaxOps
        /\ operationId = NoId => uuidNext < MaxUuid
        /\ Handle(s, OnStart(s, "erase", "erase-start", point, operationId), clients,
                  Sent("erase-start", operationId))

EraseMove(s, clients) ==
    \E point \in MovePoints, operationId \in ClientIds \cup Uuids :
        /\ TotalMoves < MaxMoves
        /\ Handle(s, OnEraseMove(s, point, operationId), clients,
                  Sent("erase-move", operationId))

EraseEnd(s, clients) ==
    \E operationId \in ClientIds \cup Uuids :
        Handle(s, OnEraseEnd(s, operationId), clients, Sent("erase-end", operationId))

CursorMove(s, clients) ==
    \E point \in CursorPoints :
        /\ TotalCursors < MaxCursors
        /\ Handle(s, OnCursorMove(s, point), clients, Sent("cursor-move", NoId))

Undo(s, clients) == Handle(s, OnUndo(s), clients, Sent("undo", NoId))

Redo(s, clients) == Handle(s, OnRedo(s), clients, Sent("redo", NoId))

ClearCanvas(s, clients) ==
    Handle(s, OnClearCanvas(s), clients, Sent("clear-canvas", NoId))

Disconnect(s, clients) ==
    Handle(s, OnDisconnect(s), clients, Sent("disconnect", NoId))

\* The server alone.
Next ==
    \E s \in Sessions :
        \/ Connect(s)
        \/ JoinRoom(s, NoClients)
        \/ RequestUsers(s, NoClients)
        \/ DrawStart(s, NoClients)
        \/ DrawMove(s, NoClients)
        \/ DrawEnd(s, NoClients)
        \/ EraseStart(s, NoClients)
        \/ EraseMove(s, NoClients)
        \/ EraseEnd(s, NoClients)
        \/ CursorMove(s, NoClients)
        \/ Undo(s, NoClients)
        \/ Redo(s, NoClients)
        \/ ClearCanvas(s, NoClients)
        \/ Disconnect(s, NoClients)

Spec == Init /\ [][Next]_vars

\* The server and the clients' operation maps.
ClientNext ==
    \E s \in Sessions :
        \/ Connect(s)
        \/ JoinRoom(s, Observers)
        \/ RequestUsers(s, Observers)
        \/ DrawStart(s, Observers)
        \/ DrawMove(s, Observers)
        \/ DrawEnd(s, Observers)
        \/ EraseStart(s, Observers)
        \/ EraseMove(s, Observers)
        \/ EraseEnd(s, Observers)
        \/ CursorMove(s, Observers)
        \/ Undo(s, Observers)
        \/ Redo(s, Observers)
        \/ ClearCanvas(s, Observers)
        \/ Disconnect(s, Observers)

SpecClient == Init /\ [][ClientNext]_vars

\* The server and the operation maps of clients that draw.
DrawerNext ==
    \E s \in Sessions :
        \/ Connect(s)
        \/ JoinRoom(s, Drawers)
        \/ DrawStart(s, Drawers)
        \/ DrawMove(s, Drawers)
        \/ DrawEnd(s, Drawers)
        \/ EraseStart(s, Drawers)
        \/ EraseMove(s, Drawers)
        \/ EraseEnd(s, Drawers)
        \/ Undo(s, Drawers)
        \/ Redo(s, Drawers)
        \/ ClearCanvas(s, Drawers)
        \/ Disconnect(s, Drawers)

SpecDrawer == Init /\ [][DrawerNext]_vars

(* ---------------------- SpecLog: one DrawingState ----------------------- *)

LogInit == Init

LogAddOperation ==
    \E draft \in Drafts({"s1"}, {"draw"}) :
        /\ LogSize(log) < MaxOps
        /\ draft.id = NoId => uuidNext < MaxUuid
        /\ LET r == addOperation(log, draft, uuidNext)
           IN /\ log' = r.state
              /\ lastCall' = Call("addOperation", log, r.ret)
              /\ given' = given \cup {r.ret.sequenceNumber}
              /\ givenSinceClear' = givenSinceClear \cup {r.ret.sequenceNumber}
        /\ uuidNext' = IF draft.id = NoId THEN uuidNext + 1 ELSE uuidNext
        /\ UNCHANGED <<snap, serverVars, clientVars>>

LogUndo ==
    /\ LET r == undo(log)
       IN /\ log' = r.state
          /\ lastCall' = Call("undo", log, r.ret)
    /\ UNCHANGED <<given, givenSinceClear, snap, uuidNext, serverVars, clientVars>>

LogRedo ==
    /\ LET r == redo(log)
       IN /\ log' = r.state
          /\ lastCall' = Call("redo", log, r.ret)
    /\ UNCHANGED <<given, givenSinceClear, snap, uuidNext, serverVars, clientVars>>

LogRemoveOperation ==
    \E operationId \in LogIds \cup Uuids :
        /\ LET r == removeOperation(log, operationId)
           IN /\ log' = r.state
              /\ lastCall' = Call("removeOperation", log, r.ret)
        /\ UNCHANGED <<given, givenSinceClear, snap, uuidNext, serverVars, clientVars>>

LogClear ==
    /\ log' = clear(log)
    /\ lastCall' = Call("clear", log, Null)
    /\ givenSinceClear' = {}
    /\ UNCHANGED <<given, snap, uuidNext, serverVars, clientVars>>

\* The draw-move handler run for the operation's author.
LogMove ==
    \E operationId \in LogIds \cup Uuids, point \in Points :
        /\ OwnsOperation(log, operationId, "s1")
        /\ LogMoves(log) < MaxMoves
        /\ log' = PushPoint(log, operationId, point)
        /\ lastCall' = Call("move", log, Null)
        /\ UNCHANGED <<given, givenSinceClear, snap, uuidNext, serverVars, clientVars>>

\* getOperationsSince(sequenceNumber) called: filter builds a new array and the
\* method assigns no field.
LogGetOperationsSince ==
    \E sequenceNumber \in SinceArgs :
        /\ lastCall' = Call("getOperationsSince", log,
                            [sequenceNumber |-> sequenceNumber,
                             list |-> getOperationsSince(log, sequenceNumber)])
        /\ UNCHANGED <<log, given, givenSinceClear, snap, uuidNext, serverVars, clientVars>>

LogNext ==
    \/ LogAddOperation
    \/ LogUndo
    \/ LogRedo
    \/ LogRemoveOperation
    \/ LogClear
    \/ LogMove
    \/ LogGetOperationsSince

SpecLog == LogInit /\ [][LogNext]_vars

(* ------------- SpecSnapshot: one DrawingState and a snapshot ------------ *)

SnapFrame == UNCHANGED <<lastCall, given, givenSinceClear, serverVars, clientVars>>

SnapAddOperation ==
    \E draft \in Drafts({"s1"}, {"draw"}) :
        /\ LogSize(log) < MaxOps
        /\ draft.id = NoId => uuidNext < MaxUuid
        /\ LET r == addOperation(log, draft, uuidNext)
           IN /\ log' = r.state
              /\ snap' = IF snap.held = Null THEN snap
                         ELSE [snap EXCEPT !.added = @ \cup {r.ret.sequenceNumber}]
        /\ uuidNext' = IF draft.id = NoId THEN uuidNext + 1 ELSE uuidNext
        /\ SnapFrame

SnapUndo ==
    /\ log' = undo(log).state
    /\ UNCHANGED <<snap, uuidNext>>
    /\ SnapFrame

SnapRedo ==
    /\ log' = redo(log).state
    /\ UNCHANGED <<snap, uuidNext>>
    /\ SnapFrame

SnapClear ==
    /\ log' = clear(log)
    /\ snap' = [snap EXCEPT !.sinceClear = FALSE]
    /\ UNCHANGED uuidNext
    /\ SnapFrame

\* The draw-move handler run for the operation's author: the push is on the
\* operation object, which a snapshot may hold too.
SnapMove ==
    \E operationId \in LogIds \cup Uuids, point \in Points :
        /\ OwnsOperation(log, operationId, "s1")
        /\ LogMoves(log) < MaxMoves
        /\ log' = PushPoint(log, operationId, point)
        /\ snap' = SharedPush(snap, log.operations[FindOperation(log, operationId)], point)
        /\ UNCHANGED uuidNext
        /\ SnapFrame

\* getStateSnapshot() called, and its value kept by the caller.
SnapGetStateSnapshot ==
    /\ snap' = Snapshot(log)
    /\ UNCHANGED <<log, uuidNext>>
    /\ SnapFrame

SnapNext ==
    \/ SnapAddOperation
    \/ SnapUndo
    \/ SnapRedo
    \/ SnapClear
    \/ SnapMove
    \/ SnapGetStateSnapshot

SpecSnapshot == Init /\ [][SnapNext]_vars

(* ------------------------ claims on the log ---------------------------- *)

\* The operations of a list are in strictly ascending order of sequenceNumber.
Ascending(ops) ==
    \A i, j \in 1..Len(ops) : i < j => ops[i].sequenceNumber < ops[j].sequenceNumber

\* The operation of a non-empty list with the highest sequenceNumber.
Newest(ops) ==
    CHOOSE op \in {ops[i] : i \in 1..Len(ops)} :
        \A i \in 1..Len(ops) : ops[i].sequenceNumber <= op.sequenceNumber

\* C1: after an addOperation on a log whose undoStack held at least one
\* operation, an immediate redo returns null and leaves the operations as
\* addOperation left them.
C1_AppendEmptiesRedoHistory ==
    (lastCall.name = "addOperation" /\ Len(lastCall.before.undoStack) > 0)
        => /\ redo(log).ret = Null
           /\ getOperations(redo(log).state) = getOperations(log)

\* C2: in every reachable state of a log the operations listed are in strictly
\* ascending order of their sequence numbers.
C2_ActiveAscending == Ascending(getOperations(log))

\* C3: undo on a non-empty operations list removes and returns the operation
\* with the highest sequence number and pushes it on undoStack.
C3_UndoTakesNewest ==
    (lastCall.name = "undo" /\ Len(lastCall.before.operations) > 0)
        => /\ lastCall.ret = Newest(lastCall.before.operations)
           /\ log.undoStack = Append(lastCall.before.undoStack, lastCall.ret)
           /\ \A i \in 1..Len(log.operations) : log.operations[i] # lastCall.ret

\* C4: after an undo that returned an operation, an immediate redo makes the
\* operations list equal to what it was before the undo (ids, order, sequence
\* numbers and points).
C4_UndoRedoRoundTrip ==
    (lastCall.name = "undo" /\ lastCall.ret # Null)
        => /\ getOperations(redo(log).state) = getOperations(lastCall.before)
           /\ redo(log).ret = lastCall.ret

\* An undo has just removed an operation carrying a pushed point while another
\* entry already was on undoStack.
C4_Witness ==
    /\ lastCall.name = "undo"
    /\ lastCall.ret # Null
    /\ Len(lastCall.ret.points) = 2
    /\ Len(log.undoStack) = 2

(* ----------------------- claims on the server -------------------------- *)

\* The log of a room: what append, undo, redo and reset work on.
LogOf(ds) ==
    [operations |-> ds.operations, undoStack |-> ds.undoStack,
     sequenceCounter |-> ds.sequenceCounter]

\* P holds of the effect of every drawing, cursor, undo, redo and clear event
\* socket s can send in the current state.
ForAllCanvasEffects(s, P(_)) ==
    /\ \A point \in StartPoints, operationId \in ClientIds \cup {NoId} :
          /\ P(OnStart(s, "draw", "draw-start", point, operationId))
          /\ P(OnStart(s, "erase", "erase-start", point, operationId))
    /\ \A point \in MovePoints, operationId \in ClientIds \cup Uuids :
          /\ P(OnMove(s, "draw-move", point, operationId))
          /\ P(OnEraseMove(s, point, operationId))
    /\ \A operationId \in ClientIds \cup Uuids :
          /\ P(OnEnd(s, "draw-end", operationId))
          /\ P(OnEraseEnd(s, operationId))
    /\ \A point \in CursorPoints : P(OnCursorMove(s, point))
    /\ P(OnUndo(s))
    /\ P(OnRedo(s))
    /\ P(OnClearCanvas(s))

\* P holds of the effect of every event socket s can send in the current state.
ForAllEffects(s, P(_)) ==
    /\ ForAllCanvasEffects(s, P)
    /\ \A roomId \in RoomKeys \cup {NoId}, userName \in UserNames :
          P(OnJoinRoom(s, roomId, userName))
    /\ P(OnRequestUsers(s))
    /\ P(OnDisconnect(s))

\* The sockets some emit call of a handler reaches.
Reached(out) == UNION {out[i].to : i \in 1..Len(out)}

\* C5: no two operations in a room's operations list share an id.
C5_ActiveIdsUnique ==
    \A k \in DOMAIN rooms :
        \A i, j \in 1..Len(rooms[k].operations) :
            i # j => rooms[k].operations[i].id # rooms[k].operations[j].id

\* C6: for two sockets A and B that joined the same room and an operation o of
\* A in that room's operations, a draw-move or draw-end from B that carries o's
\* id leaves o's points alone and emits nothing.
C6_OnlyAuthorMutates ==
    \A A, B \in Sessions :
        (/\ A # B
         /\ status[A] = "connected" /\ status[B] = "connected"
         /\ currentRoomId[A] = currentRoomId[B]
         /\ currentRoomId[A] \in sockRooms[A] \cap sockRooms[B])
        => LET ops == rooms[currentRoomId[B]].operations
           IN \A i \in 1..Len(ops) :
                ops[i].userId = A
                => /\ \A point \in MovePoints :
                        LET e == OnMove(B, "draw-move", point, ops[i].id)
                        IN /\ e.rooms[currentRoomId[B]].operations[i].points = ops[i].points
                           /\ e.out = <<>>
                   /\ OnEnd(B, "draw-end", ops[i].id).out = <<>>

\* C7: whatever event a connected socket sends, the logs of all rooms other
\* than the socket's current room (the one it names, for join-room) stay as
\* they are, and no room is lost.
C7_RoomIsolation ==
    \A s \in Sessions :
        status[s] = "connected"
        => ForAllEffects(s, LAMBDA e :
              /\ DOMAIN rooms \subseteq DOMAIN e.rooms
              /\ \A k \in DOMAIN e.rooms \ {e.currentRoomId} :
                    /\ k \in DOMAIN rooms
                    /\ LogOf(e.rooms[k]) = LogOf(rooms[k]))

\* Both rooms hold an operation of their own, with s1 in room x and s2 in the
\* default room.
C7_Witness ==
    /\ DOMAIN rooms = RoomKeys
    /\ Len(rooms["x"].operations) = 1
    /\ Len(rooms[DefaultRoom].operations) = 1
    /\ rooms["x"].operations # rooms[DefaultRoom].operations
    /\ status["s1"] = "connected" /\ currentRoomId["s1"] = "x"
    /\ status["s2"] = "connected" /\ currentRoomId["s2"] = DefaultRoom

\* What a client's operation list shows: ids and points, in order.
View(ops) == [i \in 1..Len(ops) |-> [id |-> ops[i].id, points |-> ops[i].points]]

\* C8: the operation list of a client that joined a room and has only observed
\* since equals the operations of that room on the server (ids, order, points).
C8_JoinConsistency ==
    \A s \in Sessions :
        (status[s] = "connected" /\ sockRooms[s] # {} /\ observing[s])
        => View(clientOps[s]) = View(rooms[currentRoomId[s]].operations)

\* C9: every emit call of the handler of an event from a socket s that has
\* joined (or of its join-room) reaches only sockets whose current room is the
\* current room of s.
C9_BroadcastStaysInRoom ==
    \A s \in Sessions :
        status[s] = "connected"
        => LET InRoom(e) ==
                   \A t \in Reached(e.out) :
                       (IF t = s THEN e.currentRoomId ELSE currentRoomId[t])
                           = e.currentRoomId
           IN /\ sockRooms[s] # {} => ForAllEffects(s, InRoom)
              /\ \A roomId \in RoomKeys \cup {NoId}, userName \in UserNames :
                    InRoom(OnJoinRoom(s, roomId, userName))

\* C10: the drawing, cursor, undo, redo and clear events of a socket that has
\* not joined change no room, create no room and reach no socket.
C10_UnjoinedEventsIgnored ==
    \A s \in Sessions :
        (status[s] = "connected" /\ sockRooms[s] = {})
        => ForAllCanvasEffects(s, LAMBDA e :
              /\ e.rooms = rooms
              /\ Reached(e.out) = {})

(* ------------------ claims on the handlers and the log ------------------ *)

\* Operation ids a move event can carry: the ids in use and one never used.
MoveIds == ClientIds \cup Uuids \cup {"ghost"}

\* C11: a draw-move or erase-move whose operation id is not in the operations
\* of the sender's room (never used, undone, or cleared away) leaves the
\* operations and the undoStack of every room as they are and emits nothing.
C11_MoveOnAbsentIdIsNoOp ==
    \A s \in Sessions :
        status[s] = "connected"
        => \A operationId \in MoveIds, point \in Points,
              event \in {"draw-move", "erase-move"} :
              LET cur == currentRoomId[s]
                  before == getRoom(rooms, cur)
                  e == IF event = "draw-move"
                       THEN OnMove(s, event, point, operationId)
                       ELSE OnEraseMove(s, point, operationId)
              IN FindOperation(before[cur], operationId) = 0
                 => /\ \A k \in DOMAIN before :
                         /\ getOperations(e.rooms[k]) = getOperations(before[k])
                         /\ e.rooms[k].undoStack = before[k].undoStack
                    /\ DOMAIN e.rooms = DOMAIN before
                    /\ e.out = <<>>

\* A socket whose room holds its own operation "a" on undoStack only, with
\* another socket in the room to hear a broadcast.
C11_Witness ==
    \E s \in Sessions :
        /\ status[s] = "connected"
        /\ currentRoomId[s] \in DOMAIN rooms
        /\ LET ds == rooms[currentRoomId[s]]
           IN /\ FindOperation(ds, "a") = 0
              /\ \E i \in 1..Len(ds.undoStack) :
                    ds.undoStack[i].id = "a" /\ ds.undoStack[i].userId = s
        /\ SocketTo(s, currentRoomId[s]) # {}

\* C12 as stated: over the whole life of a log, addOperation never hands out a
\* sequence number it has handed out before, whatever calls of undo, redo,
\* removeOperation and clear came between.
C12_SequenceNeverReused ==
    [][LogAddOperation => lastCall'.ret.sequenceNumber \notin given]_vars

\* C12 amended: addOperation never hands out a sequence number it has handed
\* out since the last clear() (since construction when there was none).
C12_SequenceNeverReusedSinceClear ==
    [][LogAddOperation => lastCall'.ret.sequenceNumber \notin givenSinceClear]_vars

\* addOperation has handed out a second number while an undone operation is
\* held on undoStack.
C12_Witness ==
    /\ lastCall.name = "addOperation"
    /\ lastCall.ret.sequenceNumber >= 1
    /\ Len(log.undoStack) >= 1
    /\ Cardinality(givenSinceClear) >= 2

\* C13: a redo() on a non-empty undoStack returns the entry pushed last (after
\* an undo or a removeOperation: the operation that call took out), with the
\* sequence number it had, puts it on operations next to the operations
\* already there, and leaves sequenceCounter and the other undoStack entries
\* as they were; on an empty undoStack it returns null and changes nothing.
C13_RedoFrame ==
    /\ lastCall.name = "redo"
       => LET before == lastCall.before
          IN IF Len(before.undoStack) = 0
             THEN lastCall.ret = Null /\ log = before
             ELSE /\ lastCall.ret = Last(before.undoStack)
                  /\ log.undoStack = Front(before.undoStack)
                  /\ log.operations = Append(before.operations, lastCall.ret)
                  /\ log.sequenceCounter = before.sequenceCounter
                  /\ log.users = before.users
    /\ (lastCall.name = "undo" /\ lastCall.ret # Null)
       => redo(log).ret.sequenceNumber = lastCall.ret.sequenceNumber
          /\ redo(log).ret.id = lastCall.ret.id
    /\ (lastCall.name = "removeOperation" /\ lastCall.ret = TRUE)
       => LET i == FindIndexById(lastCall.before.operations, redo(log).ret.id)
          IN /\ i # 0
             /\ redo(log).ret = lastCall.before.operations[i]

\* A redo() that found two entries on undoStack and took the later one.
C13_Witness ==
    /\ lastCall.name = "redo"
    /\ Len(lastCall.before.undoStack) = 2
    /\ lastCall.ret # Null
    /\ lastCall.ret.sequenceNumber + 1 < log.sequenceCounter
    /\ Len(log.undoStack) = 1

\* C14: when the operations of a socket's room are empty, undo() returns null
\* and the undo event leaves operations, undoStack and sequenceCounter of the
\* room (and every other room) as they are and makes no emit call.
C14_UndoOnEmptyIsNoOp ==
    \A s \in Sessions :
        status[s] = "connected"
        => LET cur == currentRoomId[s]
               before == getRoom(rooms, cur)
               e == OnUndo(s)
           IN Len(getOperations(before[cur])) = 0
              => /\ undo(before[cur]).ret = Null
                 /\ undo(before[cur]).state = before[cur]
                 /\ DOMAIN e.rooms = DOMAIN before
                 /\ \A k \in DOMAIN before : LogOf(e.rooms[k]) = LogOf(before[k])
                 /\ e.out = <<>>

\* A joined socket whose room has no operations left but an undone one on
\* undoStack, so that the counter and the stack have something to lose.
C14_Witness ==
    \E s \in Sessions :
        /\ status[s] = "connected"
        /\ currentRoomId[s] \in sockRooms[s]
        /\ currentRoomId[s] \in DOMAIN rooms
        /\ Len(rooms[currentRoomId[s]].operations) = 0
        /\ Len(rooms[currentRoomId[s]].undoStack) >= 1
        /\ rooms[currentRoomId[s]].sequenceCounter >= 1

\* C15: after clear(), from whatever state, operations and undoStack are empty
\* and sequenceCounter is 0: the snapshot has no operations and sequence
\* number 0, redo() returns null, and the next addOperation hands out 0.
C15_ClearResetsLog ==
    lastCall.name = "clear"
    => /\ getOperations(log) = <<>>
       /\ log.undoStack = <<>>
       /\ log.sequenceCounter = 0
       /\ getStateSnapshot(log).operations = <<>>
       /\ getStateSnapshot(log).sequenceNumber = 0
       /\ redo(log).ret = Null
       /\ redo(log).state = log
       /\ \A draft \in Drafts({"s1"}, OpTypes) :
             addOperation(log, draft, uuidNext).ret.sequenceNumber = 0

\* A clear() of a log that held an operation, an undone operation and a
\* counter of 2.
C15_Witness ==
    /\ lastCall.name = "clear"
    /\ Len(lastCall.before.operations) = 1
    /\ Len(lastCall.before.undoStack) = 1
    /\ lastCall.before.sequenceCounter = 2

\* C16: every draw-start or erase-start is one step that puts one operation of
\* the sender behind the operations its room had, with the room's counter as
\* sequence number, a number larger than that of every operation already in
\* the list, and moves the counter on by one: in a run of start events of
\* any sockets the new operations stand in the order the events were
\* handled, with distinct, ascending sequence numbers.
C16_StartsInArrivalOrder ==
    [][\A s \in Sessions :
         (DrawStart(s, NoClients) \/ EraseStart(s, NoClients))
         => LET cur == currentRoomId[s]
                before == getRoom(rooms, cur)[cur]
                after == rooms'[cur]
                n == Len(before.operations)
            IN /\ Len(after.operations) = n + 1
               /\ SubSeq(after.operations, 1, n) = before.operations
               /\ after.operations[n + 1].userId = s
               /\ after.operations[n + 1].sequenceNumber = before.sequenceCounter
               /\ after.sequenceCounter = before.sequenceCounter + 1
               /\ \A i \in 1..n :
                     before.operations[i].sequenceNumber
                         < after.operations[n + 1].sequenceNumber
               /\ \A k \in DOMAIN rooms \ {cur} : rooms'[k] = rooms[k]]_vars

\* Two sockets' start events were handled one after the other in one room:
\* the erase of s2 first, the stroke of s1 second.
C16_Witness ==
    \E k \in DOMAIN rooms :
        /\ Len(rooms[k].operations) = 2
        /\ rooms[k].undoStack = <<>>
        /\ rooms[k].sequenceCounter = 2
        /\ rooms[k].operations[1].userId = "s2"
        /\ rooms[k].operations[2].userId = "s1"
        /\ currentRoomId["s1"] = k /\ currentRoomId["s2"] = k

\* The sockets that joined room k and have it as their current room.
JoinedIn(k) ==
    {t \in Sessions : status[t] = "connected" /\ currentRoomId[t] = k
                       /\ k \in sockRooms[t]}

\* C17: the disconnect of a joined socket takes its user out of the users of
\* its room and out of userToRoom, and every other socket joined in that room
\* is sent user-left for it and a users-update whose list does not name it.
C17_DisconnectAnnounced ==
    \A s \in Sessions :
        s \in JoinedIn(currentRoomId[s])
        => LET cur == currentRoomId[s]
               e == OnDisconnect(s)
           IN /\ FindIndexById(getUsers(e.rooms[cur]), s) = 0
              /\ s \notin DOMAIN e.userToRoom
              /\ \A t \in JoinedIn(cur) \ {s} :
                    /\ \E i \in 1..Len(e.out) :
                          /\ e.out[i].event = "user-left"
                          /\ t \in e.out[i].to
                          /\ e.out[i].data.userId = s
                    /\ \E i \in 1..Len(e.out) :
                          /\ e.out[i].event = "users-update"
                          /\ t \in e.out[i].to
                          /\ FindIndexById(e.out[i].data, s) = 0

\* The users list an emit call carries, empty for the events that carry none.
UsersSent(msg) ==
    IF msg.event \in {"users-update", "users-list"} THEN msg.data
    ELSE IF msg.event = "state-sync" THEN msg.data.users
    ELSE <<>>

\* C18: once the disconnect of a socket has been handled, its user is in the
\* users of no room, and no users list emitted by a later handler names it.
C18_GoneAfterDisconnect ==
    \A s \in Sessions :
        status[s] = "closed"
        => /\ \A k \in DOMAIN rooms : FindIndexById(getUsers(rooms[k]), s) = 0
           /\ \A t \in Sessions :
                 status[t] = "connected"
                 => ForAllEffects(t, LAMBDA e :
                       \A i \in 1..Len(e.out) :
                           FindIndexById(UsersSent(e.out[i]), s) = 0)

\* The events emitted with socket.to and those emitted with io.to.
ToOthersEvents ==
    {"draw-start", "draw-move", "draw-end", "erase-start", "erase-move",
     "erase-end", "cursor-move"}

ToAllEvents == {"undo", "redo", "clear-canvas"}

\* C19: for a joined sender, every start, move, end and cursor event emitted
\* goes to every other socket joined in the sender's room and not to the
\* sender; every undo, redo and clear-canvas emitted goes to every socket
\* joined in the room, the sender among them. Start, cursor and clear events
\* are emitted whenever received, undo and redo whenever they return an
\* operation.
C19_BroadcastTargets ==
    \A s \in Sessions :
        s \in JoinedIn(currentRoomId[s])
        => LET cur == currentRoomId[s]
               Targets(e) ==
                   \A i \in 1..Len(e.out) :
                       /\ e.out[i].event \in ToOthersEvents
                          => /\ JoinedIn(cur) \ {s} \subseteq e.out[i].to
                             /\ s \notin e.out[i].to
                       /\ e.out[i].event \in ToAllEvents
                          => /\ JoinedIn(cur) \subseteq e.out[i].to
                             /\ s \in e.out[i].to
               Sends(e, event) == Len(e.out) = 1 /\ e.out[1].event = event
           IN /\ ForAllCanvasEffects(s, Targets)
              /\ \A point \in StartPoints, operationId \in ClientIds \cup {NoId} :
                    /\ Sends(OnStart(s, "draw", "draw-start", point, operationId),
                             "draw-start")
                    /\ Sends(OnStart(s, "erase", "erase-start", point, operationId),
                             "erase-start")
              /\ \A operationId \in MoveIds :
                    OwnsOperation(rooms[cur], operationId, s)
                    => /\ \A point \in MovePoints :
                            Sends(OnMove(s, "draw-move", point, operationId), "draw-move")
                       /\ Sends(OnEnd(s, "draw-end", operationId), "draw-end")
              /\ \A point \in CursorPoints :
                    Sends(OnCursorMove(s, point), "cursor-move")
              /\ Sends(OnClearCanvas(s), "clear-canvas")
              /\ Len(rooms[cur].operations) > 0 => Sends(OnUndo(s), "undo")
              /\ Len(rooms[cur].undoStack) > 0 => Sends(OnRedo(s), "redo")

\* Both sockets joined in one room that holds an operation of s1 and an
\* undone operation: every event of the claim is emitted from here.
C19_Witness ==
    /\ JoinedIn(DefaultRoom) = Sessions
    /\ \E i \in 1..Len(rooms[DefaultRoom].operations) :
          rooms[DefaultRoom].operations[i].userId = "s1"
    /\ Len(rooms[DefaultRoom].undoStack) > 0

\* C20: for a joined sender, a draw-start or erase-start whose payload has no
\* point, a draw-move or erase-move whose payload has no operationId and a
\* cursor-move whose payload has no point change no room and emit nothing.
C20_MalformedIgnored ==
    \A s \in Sessions :
        s \in JoinedIn(currentRoomId[s])
        => LET Ignored(e) == e.rooms = rooms /\ e.out = <<>>
           IN /\ \A operationId \in ClientIds \cup {NoId} :
                    /\ Ignored(OnStart(s, "draw", "draw-start", Null, operationId))
                    /\ Ignored(OnStart(s, "erase", "erase-start", Null, operationId))
              /\ \A point \in MovePoints :
                    /\ Ignored(OnMove(s, "draw-move", point, NoId))
                    /\ Ignored(OnEraseMove(s, point, NoId))
              /\ Ignored(OnCursorMove(s, Null))

C22_LeaveIdempotent ==
    \A s \in Sessions :
        LET once == leaveRoom(rooms, userToRoom, s)
            twice == leaveRoom(once.rooms, once.userToRoom, s)
        IN /\ twice.rooms = once.rooms
           /\ twice.userToRoom = once.userToRoom
           /\ getUserRoom(once.userToRoom, s) = NoId
           /\ getUserRoom(userToRoom, s) = NoId
              => once.rooms = rooms /\ once.userToRoom = userToRoom

\* One user is in a room with an operation in its log, so that the first
\* leaveRoom has something to remove, and the other user is in no room while
\* the default room does not exist.
C22_Witness ==
    /\ getUserRoom(userToRoom, "s1") = "x"
    /\ FindIndexById(getUsers(rooms["x"]), "s1") # 0
    /\ Len(rooms["x"].operations) > 0
    /\ getUserRoom(userToRoom, "s2") = NoId
    /\ DefaultRoom \notin DOMAIN rooms

\* C23: getRoom(k) always gives a rooms Map that has k. When k was not there
\* the room under k is new (no operations, no users, empty undoStack, a
\* snapshot of [] and 0) and the other rooms are untouched; when k was there
\* the Map is returned as it is, and a second getRoom(k) changes nothing.
C23_GetRoomCreatesOnce ==
    \A k \in RoomKeys \cup {"ghost"} :
        LET rs1 == getRoom(rooms, k)
        IN /\ k \in DOMAIN rs1
           /\ DOMAIN rs1 = DOMAIN rooms \cup {k}
           /\ \A j \in DOMAIN rooms : rs1[j] = rooms[j]
           /\ k \notin DOMAIN rooms
              => /\ getStateSnapshot(rs1[k]).operations = <<>>
                 /\ getStateSnapshot(rs1[k]).sequenceNumber = 0
                 /\ getUsers(rs1[k]) = <<>>
                 /\ rs1[k].undoStack = <<>>
           /\ getRoom(rs1, k) = rs1

\* Room x has been referred to before and holds a user, an operation and an
\* undone operation, while the default room has never been referred to.
C23_Witness ==
    /\ DOMAIN rooms = {"x"}
    /\ Len(getUsers(rooms["x"])) > 0
    /\ Len(rooms["x"].operations) > 0
    /\ Len(rooms["x"].undoStack) > 0

\* C24: a disconnect and a leaveRoom remove no room: every key of rooms is
\* still among getAllRooms afterwards, and operations, undoStack and
\* sequenceCounter of every room are what they were, also when the room is
\* left without users; and no step of the server removes a room.
C24_RoomsNeverEvicted ==
    /\ \A s \in Sessions :
          LET l == leaveRoom(rooms, userToRoom, s)
          IN /\ getAllRooms(rooms) \subseteq getAllRooms(l.rooms)
             /\ \A k \in DOMAIN rooms : LogOf(l.rooms[k]) = LogOf(rooms[k])
    /\ \A s \in Sessions :
          status[s] = "connected"
          => LET e == OnDisconnect(s)
             IN /\ getAllRooms(rooms) \subseteq getAllRooms(e.rooms)
                /\ \A k \in DOMAIN rooms : LogOf(e.rooms[k]) = LogOf(rooms[k])
    /\ \A s \in Sessions :
          status[s] = "connected"
          => ForAllEffects(s, LAMBDA e :
                getAllRooms(rooms) \subseteq getAllRooms(e.rooms))

\* The only user of a room that holds an operation is about to disconnect,
\* and the other socket has disconnected already from a room still there.
C24_Witness ==
    /\ status["s2"] = "closed"
    /\ status["s1"] = "connected"
    /\ getUserRoom(userToRoom, "s1") = "x"
    /\ Len(getUsers(rooms["x"])) = 1
    /\ Len(rooms["x"].operations) > 0
    /\ DefaultRoom \in getAllRooms(rooms)
    /\ Len(getUsers(rooms[DefaultRoom])) = 0

\* C25: the disconnect of a socket, whatever it has started and not ended,
\* leaves operations, undoStack and sequenceCounter of every room as they
\* were; each operation of the socket stands where it stood with the points
\* it had, in the operations and in the snapshot taken after the disconnect.
C25_DisconnectKeepsInFlight ==
    [][\A s \in Sessions :
         Disconnect(s, NoClients)
         => /\ \A k \in DOMAIN rooms : LogOf(rooms'[k]) = LogOf(rooms[k])
            /\ LET cur == currentRoomId[s]
                   ops == IF cur \in DOMAIN rooms THEN rooms[cur].operations
                          ELSE <<>>
               IN \A i \in 1..Len(ops) :
                     ops[i].userId = s
                     => /\ Len(getStateSnapshot(rooms'[cur]).operations) >= i
                        /\ getStateSnapshot(rooms'[cur]).operations[i] = ops[i]]_vars

\* Socket s1 has disconnected and the operation it started, with the point
\* of its one draw-move, is in the operations of its room.
C25_Witness ==
    /\ status["s1"] = "closed"
    /\ \E k \in DOMAIN rooms :
          \E i \in 1..Len(rooms[k].operations) :
              /\ rooms[k].operations[i].userId = "s1"
              /\ Len(rooms[k].operations[i].points) = 2

\* C26: with sockets A and B joined in one room and an operation of B in the
\* room's operations (started, and open to B's further draw-move and draw-end
\* events), an undo sent by A leaves that operation in the operations, so
\* that a draw-move of B that follows still finds it and appends its point.
C26_UndoSparesInProgress ==
    \A A, B \in Sessions :
        (A # B /\ A \in JoinedIn(currentRoomId[A]) /\ B \in JoinedIn(currentRoomId[A]))
        => LET cur == currentRoomId[A]
               ops == rooms[cur].operations
               after == OnUndo(A).rooms[cur]
           IN \A i \in 1..Len(ops) :
                 ops[i].userId = B
                 => /\ \E j \in 1..Len(after.operations) : after.operations[j] = ops[i]
                    /\ OwnsOperation(after, ops[i].id, B)

\* k calls of undo() in a row: the state they leave and what they returned,
\* in call order.
RECURSIVE UndoTimes(_, _)
UndoTimes(ds, k) ==
    IF k = 0 THEN [state |-> ds, rets |-> <<>>]
    ELSE LET r == undo(ds)
             rest == UndoTimes(r.state, k - 1)
         IN [state |-> rest.state, rets |-> <<r.ret>> \o rest.rets]

\* k calls of redo() in a row, likewise.
RECURSIVE RedoTimes(_, _)
RedoTimes(ds, k) ==
    IF k = 0 THEN [state |-> ds, rets |-> <<>>]
    ELSE LET r == redo(ds)
             rest == RedoTimes(r.state, k - 1)
         IN [state |-> rest.state, rets |-> <<r.ret>> \o rest.rets]

\* C27: from every log state and for every k up to the number of operations,
\* k undo() calls (each returns an operation) followed by k redo() calls give
\* back the operations list and the undoStack of before, and the redo calls
\* return what the undo calls returned, last undone first.
C27_RedoIsStack ==
    \A k \in 1..Len(getOperations(log)) :
        LET u == UndoTimes(log, k)
            r == RedoTimes(u.state, k)
        IN /\ \A i \in 1..k : u.rets[i] # Null
           /\ getOperations(r.state) = getOperations(log)
           /\ r.state.undoStack = log.undoStack
           /\ r.state.sequenceCounter = log.sequenceCounter
           /\ \A i \in 1..k : r.rets[i] = u.rets[k + 1 - i]

\* A log with two operations, the first of them with a pushed point: two
\* undo() calls and two redo() calls apply.
C27_Witness ==
    /\ Len(getOperations(log)) = 2
    /\ Len(log.operations[1].points) = 2
    /\ log.operations[1] # log.operations[2]

\* after is ops with the one element at index i taken out, the others in
\* their order.
TakenOut(ops, i, after) ==
    /\ Len(after) = Len(ops) - 1
    /\ \A j \in 1..Len(after) : after[j] = IF j < i THEN ops[j] ELSE ops[j + 1]

\* C28: removeOperation(id) with an operation of that id in operations takes
\* out one operation of that id, the others keeping their order, pushes it
\* on undoStack, leaves sequenceCounter alone and returns true; with no such
\* operation it returns false and the state is unchanged.
C28_RemoveById ==
    /\ \A id \in LogIds \cup Uuids \cup {"ghost"} :
          LET ops == getOperations(log)
              r == removeOperation(log, id)
          IN IF \E i \in 1..Len(ops) : ops[i].id = id
             THEN /\ r.ret = TRUE
                  /\ \E i \in 1..Len(ops) :
                        /\ ops[i].id = id
                        /\ TakenOut(ops, i, r.state.operations)
                        /\ r.state.undoStack = Append(log.undoStack, ops[i])
                  /\ r.state.sequenceCounter = log.sequenceCounter
                  /\ r.state.users = log.users
             ELSE r.ret = FALSE /\ r.state = log
    /\ lastCall.name = "removeOperation"
       => IF lastCall.ret = TRUE
          THEN /\ \E i \in 1..Len(lastCall.before.operations) :
                     /\ TakenOut(lastCall.before.operations, i, log.operations)
                     /\ log.undoStack = Append(lastCall.before.undoStack,
                                                lastCall.before.operations[i])
               /\ log.sequenceCounter = lastCall.before.sequenceCounter
          ELSE log = lastCall.before

\* removeOperation has taken the first of two operations out.
C28_Witness ==
    /\ lastCall.name = "removeOperation"
    /\ lastCall.ret = TRUE
    /\ Len(lastCall.before.operations) = 2
    /\ log.operations = <<lastCall.before.operations[2]>>
    /\ lastCall.before.operations[1] # lastCall.before.operations[2]

\* The emit calls of two handlers agree in everything but the event's name.
SameEmits(out1, out2) ==
    /\ Len(out1) = Len(out2)
    /\ \A i \in 1..Len(out1) : out1[i].to = out2[i].to /\ out1[i].data = out2[i].data

\* C29: an erase-move (erase-end) has the effect a draw-move (draw-end) with
\* the same payload from the same socket has, the event's name apart: when
\* the operation found under the id is the sender's, the point is pushed and
\* erase-move (erase-end) is emitted; otherwise nothing changes and nothing
\* is emitted.
C29_EraseCheckedLikeDraw ==
    \A s \in Sessions :
        status[s] = "connected"
        => \A x \in MoveIds, point \in Points :
              LET cur == currentRoomId[s]
                  before == getRoom(rooms, cur)
                  em == OnEraseMove(s, point, x)
                  ee == OnEraseEnd(s, x)
                  dm == OnMove(s, "draw-move", point, x)
                  de == OnEnd(s, "draw-end", x)
              IN /\ em.rooms = dm.rooms /\ SameEmits(em.out, dm.out)
                 /\ ee.rooms = de.rooms /\ SameEmits(ee.out, de.out)
                 /\ IF OwnsOperation(before[cur], x, s)
                    THEN /\ em.rooms # before
                         /\ Len(em.out) = 1 /\ em.out[1].event = "erase-move"
                         /\ Len(ee.out) = 1 /\ ee.out[1].event = "erase-end"
                    ELSE /\ em.rooms = before /\ em.out = <<>>
                         /\ ee.rooms = before /\ ee.out = <<>>

\* Socket s2 joined in a room with s1 where the operations hold an erase
\* operation of s2 and an operation of s1: an erase-move of s2 passes the
\* check with the one id and fails it with the other.
C29_Witness ==
    /\ JoinedIn(DefaultRoom) = Sessions
    /\ LET ops == rooms[DefaultRoom].operations
       IN /\ \E i \in 1..Len(ops) : ops[i].userId = "s2" /\ ops[i].type = "erase"
          /\ \E i \in 1..Len(ops) :
                ops[i].userId = "s1" /\ ~OwnsOperation(rooms[DefaultRoom], ops[i].id, "s2")

\* The operations a DrawingState holds, on operations and on undoStack.
Held(ds) ==
    {ds.operations[i] : i \in 1..Len(ds.operations)}
        \cup {ds.undoStack[i] : i \in 1..Len(ds.undoStack)}

\* C30: after every step each operation held by a room has at least one
\* point, and the points of an operation held before and after the step (the
\* same room, the same sequence number) are the points it had, or those with
\* one point appended.
C30_PointsAppendOnly ==
    [][\A k \in DOMAIN rooms' :
         \A o2 \in Held(rooms'[k]) :
            /\ Len(o2.points) >= 1
            /\ k \in DOMAIN rooms
               => \A o1 \in Held(rooms[k]) :
                     o1.sequenceNumber = o2.sequenceNumber
                     => /\ Len(o2.points) \in {Len(o1.points), Len(o1.points) + 1}
                        /\ SubSeq(o2.points, 1, Len(o1.points)) = o1.points
                        /\ o2.id = o1.id /\ o2.userId = o1.userId]_vars

\* A room holds an operation with a pushed point that has since been undone,
\* next to an operation with its first point only.
C30_Witness ==
    \E k \in DOMAIN rooms :
        /\ Len(rooms[k].undoStack) = 1
        /\ Len(rooms[k].undoStack[1].points) = 2
        /\ Len(rooms[k].operations) = 1
        /\ Len(rooms[k].operations[1].points) = 1

(* ------------------- claims on the reads of the log -------------------- *)

\* C31: a value getStateSnapshot() returned stays as it was returned, whatever
\* addOperation, undo, redo, clear and point pushes on the log follow: neither
\* its operations list nor the points of its operations change.
C31_SnapshotIsCopy ==
    snap.held # Null => snap.held = snap.returned

\* The positions of ops whose sequence number is greater than n.
Later(ops, n) == {i \in DOMAIN ops : ops[i].sequenceNumber > n}

\* C32: getOperationsSince(n) returns the operations whose sequence number is
\* greater than n, all of them and no other, in the order they have in
\* operations, and leaves the DrawingState as it was.
C32_SinceIsFilter ==
    lastCall.name = "getOperationsSince"
    => LET ops == getOperations(lastCall.before)
           n == lastCall.ret.sequenceNumber
           list == lastCall.ret.list
       IN /\ log = lastCall.before
          /\ Len(list) = Cardinality(Later(ops, n))
          /\ \A j \in 1..Len(list) :
                \E i \in Later(ops, n) :
                    /\ Cardinality({k \in Later(ops, n) : k <= i}) = j
                    /\ list[j] = ops[i]

C32_Witness ==
    /\ lastCall.name = "getOperationsSince"
    /\ Len(lastCall.before.operations) = 2
    /\ lastCall.before.operations[1].sequenceNumber = 1
    /\ lastCall.ret.sequenceNumber = 0
    /\ lastCall.ret.list = <<lastCall.before.operations[1]>>

C34_CatchUpGapFree ==
    (snap.held # Null /\ snap.sinceClear)
    => getOperationsSince(log, snap.held.sequenceNumber)
       = SelectSeq(log.operations, LAMBDA op : op.sequenceNumber \in snap.added)

(* --------------- claims on presence, ownership and leaving -------------- *)

\* The rooms whose users hold the user.
PresentIn(rs, userId) ==
    {k \in DOMAIN rs : FindIndexById(getUsers(rs[k]), userId) # 0}

\* C35: a user is in the users of at most one room, and that room is the one
\* getUserRoom returns for it, whatever joins, leaves and disconnects came
\* before (a join-room of a socket that had joined another room included).
C35_PresentInOneRoom ==
    \A s \in Sessions :
        /\ Cardinality(PresentIn(rooms, s)) <= 1
        /\ \A k \in PresentIn(rooms, s) :
              s \in DOMAIN userToRoom /\ getUserRoom(userToRoom, s) = k

\* The effect of a move handler that found operation i of the sender's room:
\* the point is pushed on it alone, and the event goes to the others of the room.
MovedAt(s, e, i, event, point, operationId) ==
    LET cur == currentRoomId[s]
    IN /\ e.rooms = [rooms EXCEPT ![cur].operations[i].points = Append(@, point)]
       /\ e.out = << Emit(SocketTo(s, cur), event,
                          [operationId |-> operationId, point |-> point]) >>

\* C36: when the room of socket s has an operation of s under an id, a
\* draw-move or erase-move of s with that id pushes the point on an operation
\* of s with that id, on no other, and is emitted to the room, whatever other
\* operations the room has under the same id.
C36_AuthorCanAlwaysMove ==
    \A s \in Sessions :
        (status[s] = "connected" /\ currentRoomId[s] \in DOMAIN rooms)
        => LET ops == rooms[currentRoomId[s]].operations
               mine(id) == {i \in DOMAIN ops : ops[i].id = id /\ ops[i].userId = s}
           IN \A operationId \in MoveIds, point \in MovePoints :
                 mine(operationId) # {}
                 => /\ \E i \in mine(operationId) :
                          MovedAt(s, OnMove(s, "draw-move", point, operationId),
                                  i, "draw-move", point, operationId)
                    /\ \E i \in mine(operationId) :
                          MovedAt(s, OnEraseMove(s, point, operationId),
                                  i, "erase-move", point, operationId)

\* The room keys RoomManager.joinRoom can be called with: those in use, the
\* empty string, and one never used.
ManagerKeys == RoomKeys \cup {NoId, "y"}

\* C38: for every user and every room key, the empty string included,
\* joinRoom followed by leaveRoom leaves the user out of the users of that
\* room and without an entry in userToRoom.
C38_LeaveUndoesJoin ==
    \A s \in Sessions, k \in ManagerKeys, userName \in UserNames :
        LET j == joinRoom(rooms, userToRoom, s, k, userName, userColor[s])
            l == leaveRoom(j.rooms, j.userToRoom, s)
        IN /\ FindIndexById(getUsers(l.rooms[k]), s) = 0
           /\ s \notin DOMAIN l.userToRoom

\* C39: the disconnect of a socket that has sent no join-room leaves rooms
\* and userToRoom as they are (no room is created, no users change) and its
\* user-left reaches no socket.
C39_UnjoinedDisconnectIsSilent ==
    \A s \in Sessions :
        (status[s] = "connected" /\ sockRooms[s] = {})
        => LET e == OnDisconnect(s)
           IN /\ e.rooms = rooms
              /\ e.userToRoom = userToRoom
              /\ \A i \in 1..Len(e.out) :
                    e.out[i].event = "user-left" => e.out[i].to = {}

(* -------------------- claims on the drawing client ---------------------- *)

\* The ids of the operations of a list.
IdsOf(ops) == {ops[i].id : i \in DOMAIN ops}

\* C37: for every socket that has joined its current room, drawing or not, the
\* ids in the client's operations map are the ids of the operations of that
\* room on the server, once the events of every handler have been delivered;
\* the client's own operations are in its map while they are in the room's list.
C37_ClientMapMatchesRoom ==
    \A s \in Sessions :
        (status[s] = "connected" /\ currentRoomId[s] \in sockRooms[s])
        => IdsOf(clientOps[s]) = IdsOf(rooms[currentRoomId[s]].operations)

====
